---- MODULE Spec2Model ----
(***************************************************************************)
(* State-machine model of src/app.py, the Streamlit math quiz: the answer  *)
(* normaliser and grader, the question filter, the random draw of the next *)
(* question, the progress ledger and ranking files, and the session stage  *)
(* machine (home, quiz, result) with logout/login and the admin panel.     *)
(*                                                                         *)
(* Text is modelled as a sequence of one-character strings so that         *)
(* normalisation, lower-casing, splitting and substring search are         *)
(* computed character by character.  The Korean level names of the source  *)
(* are written in Latin letters: "ha", "jung", "sang", "choesang" for the  *)
(* four levels and "jeonche" for the select-box entry meaning "all".       *)
(***************************************************************************)
EXTENDS Integers, Sequences, FiniteSets, TLC

VARIABLES
    progress,         \* PROGRESS_FILE: the rows of data/quiz_progress.csv, in file order
    ranking,          \* RANKING_FILE: the rows of data/quiz_ranking.csv, in file order
    df,               \* ss.df: the loaded question sheet
    stage,            \* ss.stage
    filters,          \* ss.filters
    locked_name,      \* ss.locked_name ("" while logged out, behind auth_gate)
    seen_ids,         \* ss.seen_ids
    current_row_idx,  \* ss.current_row_idx (0 models None)
    logs,             \* ss.logs
    result_saved,     \* ss.result_saved
    admin_open,       \* ss.admin_open
    admin_ok,         \* ss.admin_ok
    lastOp,           \* the handler that ran last, with what it did
    sitting,          \* the log entries graded since the last home -> quiz step
    dfp,              \* the admin delete's frame of the progress file, read and not yet
                      \* written back; <<>> when no delete is under way
    pin,              \* input of the pure function under check
    pout              \* its output, <<>> until it has been applied

vars == <<progress, ranking, df, stage, filters, locked_name, seen_ids,
          current_row_idx, logs, result_saved, admin_open, admin_ok, lastOp,
          sitting, dfp, pin, pout, dfp>>

sessionVars == <<df, stage, filters, locked_name, seen_ids, current_row_idx,
                 logs, result_saved, admin_open, admin_ok, sitting>>

(***************************************************************************)
(* Bounds of the model.                                                    *)
(***************************************************************************)
MaxLen == 3       \* longest typed answer, in characters
MaxLedger == 3    \* most rows the progress file is let grow to
MaxRows == 3      \* most rows of a ranking file drawn as input of load_ranking_sorted
MaxCorrect == 5   \* largest "correct" count in such a row
MaxLogs == 2      \* most answers graded in one browser session

(***************************************************************************)
(* Text helpers.                                                           *)
(***************************************************************************)
None == <<"<None>">>     \* Python's None as an answer value

RECURSIVE RemoveChar(_, _)
\* str.replace(c, "") for a single character c
RemoveChar(s, c) ==
    IF s = <<>> THEN <<>>
    ELSE IF Head(s) = c THEN RemoveChar(Tail(s), c)
    ELSE <<Head(s)>> \o RemoveChar(Tail(s), c)

RECURSIVE RemoveStars(_)
\* str.replace("**", ""): non-overlapping occurrences, left to right
RemoveStars(s) ==
    IF Len(s) < 2 THEN s
    ELSE IF s[1] = "*" /\ s[2] = "*" THEN RemoveStars(SubSeq(s, 3, Len(s)))
    ELSE <<Head(s)>> \o RemoveStars(Tail(s))

LowerChar(c) ==
    CASE c = "A" -> "a"
      [] c = "S" -> "s"
      [] c = "X" -> "x"
      [] OTHER -> c

\* str.lower()
Lower(s) == [i \in 1..Len(s) |-> LowerChar(s[i])]

IsSpace(c) == c \in {" ", "\t"}

RECURSIVE LStrip(_)
LStrip(s) == IF s # <<>> /\ IsSpace(Head(s)) THEN LStrip(Tail(s)) ELSE s

RECURSIVE RStrip(_)
RStrip(s) ==
    IF s # <<>> /\ IsSpace(s[Len(s)]) THEN RStrip(SubSeq(s, 1, Len(s) - 1)) ELSE s

\* str.strip()
Strip(s) == RStrip(LStrip(s))

RECURSIVE SplitWs(_, _)
\* str.split(): the maximal runs of non-whitespace characters; cur is the run being read
SplitWs(s, cur) ==
    IF s = <<>> THEN (IF cur = <<>> THEN <<>> ELSE <<cur>>)
    ELSE IF IsSpace(Head(s))
         THEN (IF cur = <<>> THEN <<>> ELSE <<cur>>) \o SplitWs(Tail(s), <<>>)
         ELSE SplitWs(Tail(s), Append(cur, Head(s)))

\* hay.str.contains(re.escape(token)): token occurs as a substring of hay
Contains(hay, token) ==
    \E i \in 1..(Len(hay) - Len(token) + 1) :
        SubSeq(hay, i, i + Len(token) - 1) = token

(***************************************************************************)
(* Answer normaliser and grader.                                           *)
(***************************************************************************)
normalize_ans(s) ==
    IF s = None THEN <<>>
    ELSE Strip(Lower(RemoveStars(RemoveChar(RemoveChar(s, " "), "$"))))

StatusLooseMutant(ua_raw, answer) ==
    LET ua == normalize_ans(ua_raw)
        gt == normalize_ans(answer)
    IN  IF ua = gt THEN "correct" ELSE IF ua = <<>> THEN "blank" ELSE "wrong"

\* the status computed at the head of commit_current_answer_and_mark_next
Status(ua_raw, answer) ==
    LET ua == normalize_ans(ua_raw)
        gt == normalize_ans(answer)
    IN  IF ua # <<>> /\ ua = gt THEN "correct"
        ELSE IF ua = <<>> THEN "blank" ELSE "wrong"

(***************************************************************************)
(* The question sheet.  A row is one line of the sheet as load_sheet       *)
(* returns it; a sheet is the sequence of its rows, and a row's index      *)
(* label is its position.                                                  *)
(***************************************************************************)
LEVELS == <<"jeonche", "ha", "jung", "sang", "choesang">>

LEVEL_SCORE(level) ==
    CASE level = "ha" -> 1
      [] level = "jung" -> 3
      [] level = "sang" -> 5
      [] level = "choesang" -> 7
      [] OTHER -> 0          \* .map(LEVEL_SCORE).fillna(0)

\* the sheet fetched from SHEET_CSV_URL
load_sheet ==
    << [id |-> "q1", level |-> "ha",   topic |-> <<"s">>, question |-> <<"x">>,
        answer |-> <<"5">>],
       [id |-> "q2", level |-> "jung", topic |-> <<"s">>, question |-> <<"a">>,
        answer |-> <<"$", "A", "$">>] >>

\* the sheet after its rows were re-sorted in the spreadsheet: the same questions, the
\* other way round
resorted_sheet == <<load_sheet[2], load_sheet[1]>>

\* what a fetch of SHEET_CSV_URL may return
Sheets == {load_sheet, resorted_sheet}

filter_dfAnyLevelMutant(sheet, level, keyword) ==
    LET kw == Lower(Strip(keyword))
        hay(r) == Lower(r.topic \o <<" ">> \o r.question \o <<" ">> \o r.answer)
        tokens == SplitWs(kw, <<>>)
    IN  { i \in 1..Len(sheet) :
            /\ level # "jeonche" => sheet[i].level = level
            /\ \A t \in 1..Len(tokens) : Contains(hay(sheet[i]), tokens[t]) }

\* filter_df: the index labels of the rows kept
filter_df(sheet, level, keyword) ==
    LET kw == Lower(Strip(keyword))
        hay(r) == Lower(r.topic \o <<" ">> \o r.question \o <<" ">> \o r.answer)
        tokens == SplitWs(kw, <<>>)
    IN  { i \in 1..Len(sheet) :
            /\ level \in {"ha", "jung", "sang", "choesang"} => sheet[i].level = level
            /\ \A t \in 1..Len(tokens) : Contains(hay(sheet[i]), tokens[t]) }

unseenSeenMutant(sheet, level, keyword, seen) ==
    filter_df(sheet, level, keyword)

\* df_filtered[~df_filtered["id"].isin(ss.seen_ids)]
unseen(sheet, level, keyword, seen) ==
    { i \in filter_df(sheet, level, keyword) : sheet[i].id \notin seen }

(***************************************************************************)
(* Reading a CSV file back.  pandas.read_csv infers the type of a column:  *)
(* when every user_name of the file reads as a number the column is read   *)
(* as numbers, and astype(str) then gives the number's text ("007" comes   *)
(* back as "7"); a column with any other name in it is read as text and    *)
(* comes back as written.  An empty level cell is read as NaN.             *)
(***************************************************************************)
NumericNames == {"7", "007"}

NumberText(name) == IF name = "007" THEN "7" ELSE name

\* pd.read_csv(file) followed by ["user_name"].astype(str).str.strip()
read_csv(rows) ==
    IF rows # <<>> /\ \A i \in 1..Len(rows) : rows[i].user_name \in NumericNames
    THEN [i \in 1..Len(rows) |-> [rows[i] EXCEPT !.user_name = NumberText(@)]]
    ELSE rows

\* mine["level"].astype(str) of a level cell read from the file
LevelStr(level) == IF level = "" THEN "nan" ELSE level

\* dict(zip(problems_df["id"], problems_df["level"])).get(qid, ""): the last row wins
id2lvl(sheet, qid) ==
    LET hits == { i \in 1..Len(sheet) : sheet[i].id = qid }
    IN  IF hits = {} THEN ""
        ELSE sheet[CHOOSE i \in hits : \A j \in hits : j <= i].level

(***************************************************************************)
(* Progress ledger.                                                        *)
(***************************************************************************)
\* the row append_progress writes (the timestamp is left out)
ProgressRow(user, qid, status, level) ==
    [user_name |-> user, qid |-> qid, status |-> status, level |-> level]

append_progressTwiceMutant(file, user, qid, status, level) ==
    Append(Append(file, ProgressRow(user, qid, status, level)),
           ProgressRow(user, qid, status, level))

append_progress(file, user, qid, status, level) ==
    Append(file, ProgressRow(user, qid, status, level))

ZeroStats == [total |-> 0, correct |-> 0, wrong |-> 0, blank |-> 0, rate |-> 0, score |-> 0]

RECURSIVE SumScore(_)
SumScore(rows) ==
    IF rows = <<>> THEN 0
    ELSE (IF Head(rows).status = "correct" THEN LEVEL_SCORE(Head(rows).level) ELSE 0)
         + SumScore(Tail(rows))

\* round(correct/total*100, 1), in tenths of a percent; a tie goes to the even digit
Rate(correct, total) ==
    LET q == (1000 * correct) \div total
        r == (1000 * correct) % total
    IN  IF 2 * r > total \/ (2 * r = total /\ q % 2 = 1) THEN q + 1 ELSE q

recompute_from_progress(file, user, problems_df) ==
    LET prog == read_csv(file)
        mine0 == SelectSeq(prog, LAMBDA r : r.user_name = user)
        mine == [i \in 1..Len(mine0) |->
                   LET lvl == LevelStr(mine0[i].level)
                   IN  [mine0[i] EXCEPT !.level =
                          IF lvl = "" THEN id2lvl(problems_df, mine0[i].qid) ELSE lvl]]
        total == Len(mine)
        correct == Len(SelectSeq(mine, LAMBDA r : r.status = "correct"))
        blank == Len(SelectSeq(mine, LAMBDA r : r.status = "blank"))
    IN  IF prog = <<>> THEN ZeroStats
        ELSE IF mine0 = <<>> THEN ZeroStats
        ELSE [total |-> total, correct |-> correct, wrong |-> total - correct - blank,
              blank |-> blank, rate |-> Rate(correct, total), score |-> SumScore(mine)]

(***************************************************************************)
(* Ranking file.                                                           *)
(***************************************************************************)
\* the row replace_ranking writes (the timestamp is left out)
RankingRow(user, stats) ==
    [user_name |-> user, total |-> stats.total, correct |-> stats.correct,
     wrong |-> stats.wrong, blank |-> stats.blank, rate |-> stats.rate,
     score |-> stats.score]

replace_ranking(file, user, stats) ==
    LET rank == SelectSeq(read_csv(file), LAMBDA r : r.user_name # user)
    IN  Append(rank, RankingRow(user, stats))

\* the rows of a file that the admin panel's delete keeps, as it writes them back
DeleteUser(file, target) ==
    SelectSeq(read_csv(file), LAMBDA r : r.user_name # target)

RECURSIVE SortDesc(_)
\* sort_values(by=["correct"], ascending=[False], kind="mergesort"): stable
SortDesc(rows) ==
    IF rows = <<>> THEN <<>>
    ELSE LET rest == SortDesc(SubSeq(rows, 1, Len(rows) - 1))
             last == rows[Len(rows)]
             k == Cardinality({ i \in 1..Len(rest) : rest[i].correct >= last.correct })
         IN  SubSeq(rest, 1, k) \o <<last>> \o SubSeq(rest, k + 1, Len(rest))

load_ranking_sortedUnsortedMutant(file) ==
    LET sorted == read_csv(file)
    IN  [i \in 1..Len(sorted) |-> [row |-> sorted[i], rank |-> i]]

\* load_ranking_sorted: the rows in display order, each with its rank column
load_ranking_sorted(file) ==
    LET sorted == SortDesc(read_csv(file))
    IN  [i \in 1..Len(sorted) |-> [row |-> sorted[i], rank |-> i]]

(***************************************************************************)
(* The session.  One browser session is modelled; its files are shared     *)
(* with every other session of the server.                                 *)
(***************************************************************************)
Users == {"a", "007"}                  \* the accounts of data/accounts.csv
Keywords == {<<>>, <<"S">>}            \* keywords typed on the home screen
Answers == {<<>>, <<" ", "5">>}        \* answers typed in a quiz
Targets == {"a", "007"}                \* names typed into the admin panel
ADMIN_PASSWORD == "081224"
Passwords == {ADMIN_PASSWORD, "0000"}  \* passwords typed into the admin panel

\* lastOp: "start", "next", "finish" and "go_home" name the quiz handlers, "admin" the
\* handlers of the admin panel; every other handler is "other".  drew says whether the handler drew a new question.
Op(name) == [op |-> name, drew |-> FALSE]

\* the session-state defaults set at the top of every run, and the empty files
SessionDefaults ==
    /\ df = load_sheet
    /\ stage = "home"
    /\ filters = [level |-> "jeonche", keyword |-> <<>>]
    /\ locked_name = ""
    /\ seen_ids = {}
    /\ current_row_idx = 0
    /\ logs = <<>>
    /\ result_saved = FALSE
    /\ admin_open = FALSE
    /\ admin_ok = FALSE
    /\ sitting = <<>>

Init ==
    /\ progress = <<>>
    /\ ranking = <<>>
    /\ SessionDefaults
    /\ dfp = <<>>
    /\ lastOp = Op("init")
    /\ pin = <<>>
    /\ pout = <<>>

LoggedIn == locked_name # ""

\* QUIZ: row = ss.df.loc[ss.current_row_idx] raises KeyError when the label is not in
\* ss.df, and the run stops before the quiz buttons and the admin panel are drawn
RowShown == stage = "quiz" => current_row_idx \in 1..Len(df)

\* auth_gate: the login form accepts an account's name and password
Login(name) ==
    /\ ~LoggedIn
    /\ locked_name' = name
    /\ lastOp' = Op("other")
    /\ UNCHANGED <<progress, ranking, df, stage, filters, seen_ids, current_row_idx,
                   logs, result_saved, admin_open, admin_ok, sitting, pin, pout, dfp>>

\* the sidebar's logout button
Logout ==
    /\ LoggedIn
    /\ locked_name' = ""
    /\ lastOp' = Op("other")
    /\ UNCHANGED <<progress, ranking, df, stage, filters, seen_ids, current_row_idx,
                   logs, result_saved, admin_open, admin_ok, sitting, pin, pout, dfp>>

\* HOME: the start button, with the level and keyword of the two inputs
StartQuiz(level, keyword) ==
    /\ LoggedIn
    /\ stage = "home"
    /\ df # <<>>
    /\ filters' = [level |-> level, keyword |-> keyword]
    /\ LET pool == unseen(df, level, keyword, seen_ids)
       IN  IF pool = {}
           THEN /\ UNCHANGED <<current_row_idx, stage, sitting>>
                /\ lastOp' = Op("start")
           ELSE /\ \E i \in pool : current_row_idx' = i      \* unseen.sample(1)
                /\ stage' = "quiz"
                /\ sitting' = <<>>
                /\ lastOp' = [op |-> "start", drew |-> TRUE]
    /\ UNCHANGED <<progress, ranking, df, locked_name, seen_ids, logs, result_saved,
                   admin_open, admin_ok, pin, pout, dfp>>

\* the entry commit_current_answer_and_mark_next appends to ss.logs
LogEntry(row, status) ==
    [qid |-> row.id, status |-> status, level |-> row.level, topic |-> row.topic]

\* QUIZ: the next-question and finish buttons, with the answer typed
commit_current_answer_and_mark_next(finish, ua_raw) ==
    /\ LoggedIn
    /\ stage = "quiz"
    /\ RowShown
    /\ Len(progress) < MaxLedger
    /\ Len(logs) < MaxLogs
    /\ LET row == df[current_row_idx]
           status == Status(ua_raw, row.answer)
           seen == seen_ids \cup {row.id}
           pool == unseen(df, filters.level, filters.keyword, seen)
       IN  /\ progress' = append_progress(progress, locked_name, row.id, status, row.level)
           /\ logs' = Append(logs, LogEntry(row, status))
           /\ sitting' = Append(sitting, LogEntry(row, status))
           /\ seen_ids' = seen
           /\ IF finish
              THEN /\ stage' = "result"
                   /\ UNCHANGED current_row_idx
                   /\ lastOp' = Op("finish")
              ELSE IF pool = {}
              THEN /\ stage' = "result"
                   /\ UNCHANGED current_row_idx
                   /\ lastOp' = Op("next")
              ELSE /\ \E i \in pool : current_row_idx' = i   \* unseen.sample(1)
                   /\ UNCHANGED stage
                   /\ lastOp' = [op |-> "next", drew |-> TRUE]
    /\ UNCHANGED <<ranking, df, filters, locked_name, result_saved, admin_open,
                   admin_ok, pin, pout, dfp>>

\* go_home, from the home buttons of the quiz and result stages
go_home ==
    /\ LoggedIn /\ RowShown
    /\ stage \in {"quiz", "result"}
    /\ stage' = "home"
    /\ current_row_idx' = 0
    /\ result_saved' = FALSE
    /\ lastOp' = Op("go_home")
    /\ UNCHANGED <<progress, ranking, df, filters, locked_name, seen_ids, logs,
                   admin_open, admin_ok, sitting, pin, pout, dfp>>

\* RESULT: the save-to-ranking button
SaveRanking ==
    /\ LoggedIn
    /\ stage = "result"
    /\ logs # <<>>
    /\ ~result_saved
    /\ ranking' = replace_ranking(ranking, locked_name,
                                  recompute_from_progress(progress, locked_name, df))
    /\ stage' = "home"
    /\ current_row_idx' = 0
    /\ result_saved' = FALSE       \* set, then cleared by go_home in the same run
    /\ lastOp' = Op("other")
    /\ UNCHANGED <<progress, df, filters, locked_name, seen_ids, logs, admin_open,
                   admin_ok, sitting, pin, pout, dfp>>

\* the admin button at the bottom right
AdminFab ==
    /\ LoggedIn /\ RowShown
    /\ admin_open' = ~admin_open
    /\ lastOp' = Op("admin")
    /\ UNCHANGED <<progress, ranking, df, stage, filters, locked_name, seen_ids,
                   current_row_idx, logs, result_saved, admin_ok, sitting, pin, pout, dfp>>

\* _admin_panel_password: the confirm button, with the password typed
AdminPassword(pwd) ==
    /\ LoggedIn /\ RowShown /\ admin_open /\ ~admin_ok
    /\ admin_ok' = (pwd = ADMIN_PASSWORD)
    /\ lastOp' = Op("admin")
    /\ UNCHANGED <<progress, ranking, df, stage, filters, locked_name, seen_ids,
                   current_row_idx, logs, result_saved, admin_open, sitting, pin, pout, dfp>>

\* the close buttons of both admin panels
AdminClose ==
    /\ LoggedIn /\ RowShown /\ admin_open
    /\ admin_open' = FALSE
    /\ lastOp' = Op("admin")
    /\ UNCHANGED <<progress, ranking, df, stage, filters, locked_name, seen_ids,
                   current_row_idx, logs, result_saved, admin_ok, sitting, pin, pout, dfp>>

AdminLockHomeMutant ==
    /\ LoggedIn /\ RowShown /\ admin_open /\ admin_ok
    /\ admin_ok' = FALSE
    /\ stage' = "home"
    /\ lastOp' = Op("admin")
    /\ UNCHANGED <<progress, ranking, df, filters, locked_name, seen_ids,
                   current_row_idx, logs, result_saved, admin_open, sitting, pin, pout, dfp>>

\* _admin_panel_menu: the lock button
AdminLock ==
    /\ LoggedIn /\ RowShown /\ admin_open /\ admin_ok
    /\ admin_ok' = FALSE
    /\ lastOp' = Op("admin")
    /\ UNCHANGED <<progress, ranking, df, stage, filters, locked_name, seen_ids,
                   current_row_idx, logs, result_saved, admin_open, sitting, pin, pout, dfp>>

\* _admin_panel_menu: the delete button, with the user name typed
AdminDelete(target) ==
    /\ LoggedIn /\ RowShown /\ admin_open /\ admin_ok
    /\ ranking' = DeleteUser(ranking, target)
    /\ progress' = DeleteUser(progress, target)
    /\ lastOp' = Op("admin")
    /\ UNCHANGED <<df, stage, filters, locked_name, seen_ids, current_row_idx, logs,
                   result_saved, admin_open, admin_ok, sitting, pin, pout, dfp>>

Next ==
    \/ \E name \in Users : Login(name)
    \/ Logout
    \/ \E level \in {LEVELS[i] : i \in 1..Len(LEVELS)}, keyword \in Keywords :
          StartQuiz(level, keyword)
    \/ \E finish \in BOOLEAN, ua_raw \in Answers :
          commit_current_answer_and_mark_next(finish, ua_raw)
    \/ go_home
    \/ SaveRanking
    \/ AdminFab
    \/ \E pwd \in Passwords : AdminPassword(pwd)
    \/ AdminClose
    \/ AdminLock
    \/ \E target \in Targets : AdminDelete(target)

Spec == Init /\ [][Next]_vars

(***************************************************************************)
(* The session of one account with the whole admin panel, the sheet reload *)
(* included (specification SpecAdmin).                                     *)
(***************************************************************************)
AdminUsers == {"a"}

\* _admin_panel_menu: the sheet reload button; the fetch returns the sheet as it is now
SheetReload(sheet) ==
    /\ LoggedIn /\ RowShown /\ admin_open /\ admin_ok
    /\ df' = sheet
    /\ lastOp' = Op("admin")
    /\ UNCHANGED <<progress, ranking, stage, filters, locked_name, seen_ids,
                   current_row_idx, logs, result_saved, admin_open, admin_ok, sitting,
                   pin, pout, dfp>>

AdminNext ==
    \/ \E name \in AdminUsers : Login(name)
    \/ Logout
    \/ \E level \in {LEVELS[i] : i \in 1..Len(LEVELS)}, keyword \in Keywords :
          StartQuiz(level, keyword)
    \/ \E finish \in BOOLEAN, ua_raw \in Answers :
          commit_current_answer_and_mark_next(finish, ua_raw)
    \/ go_home
    \/ SaveRanking
    \/ AdminFab
    \/ \E pwd \in Passwords : AdminPassword(pwd)
    \/ AdminClose
    \/ AdminLock
    \/ \E target \in Targets : AdminDelete(target)
    \/ \E sheet \in Sheets : SheetReload(sheet)

SpecAdmin == Init /\ [][AdminNext]_vars

(***************************************************************************)
(* Claims about the session (specification Spec).                          *)
(***************************************************************************)
Statuses == {"correct", "wrong", "blank"}

\* C1: whenever a handler has just drawn a question (home -> quiz or quiz -> quiz),
\* the drawn row's id is not in seen_ids as it stands at the draw, and the row is in
\* filter_df(df, filters.level, filters.keyword).
C1_DrawnUnseenAndFiltered ==
    lastOp.drew =>
        /\ current_row_idx \in 1..Len(df)
        /\ df[current_row_idx].id \notin seen_ids
        /\ current_row_idx \in filter_df(df, filters.level, filters.keyword)

\* a question drawn by the next-question button, under a keyword, with something seen
C1_Witness ==
    /\ lastOp.drew /\ lastOp.op = "next"
    /\ seen_ids # {} /\ filters.keyword # <<>>
    /\ stage = "quiz"

\* C2: a next-question or finish step appends exactly one row to the progress file, for
\* the logged-in user and the displayed question; go-home, and every step taken in the
\* home or result stage, appends none.
C2_OneRecordPerGradedQuestion ==
    [][ /\ lastOp'.op \in {"next", "finish"} =>
              /\ stage = "quiz"
              /\ \E status \in Statuses :
                    progress' = Append(progress,
                                       ProgressRow(locked_name, df[current_row_idx].id,
                                                   status, df[current_row_idx].level))
        /\ lastOp'.op \in {"go_home", "start"} => progress' = progress
        /\ lastOp'.op \notin {"next", "finish"} => Len(progress') <= Len(progress)
        /\ stage \in {"home", "result"} => Len(progress') <= Len(progress) ]_vars

\* two questions graded in the quiz stage, two rows in the file
C2_Witness ==
    /\ lastOp.op = "finish"
    /\ Len(progress) = 2 /\ Len(logs) = 2
    /\ stage = "result"

\* C9 (as claimed): every id of seen_ids has a row of the logged-in user in the ledger.
C9_SeenHaveOwnRecords ==
    LoggedIn =>
        \A id \in seen_ids :
            \E i \in 1..Len(progress) :
                progress[i].user_name = locked_name /\ progress[i].qid = id

\* C10 (as claimed): the log shown in the result stage holds exactly the answers graded
\* since the last home -> quiz step.
C10_ResultLogIsThisSitting ==
    stage = "result" => logs = sitting

(***************************************************************************)
(* The two files on their own (specifications SpecLedger and SpecRanking): *)
(* append_progress, replace_ranking and the admin panel's delete, called   *)
(* with any arguments, in any order.                                       *)
(***************************************************************************)
LedgerQuestions == {<<"q1", "ha">>, <<"q2", "jung">>, <<"q3", "sang">>}  \* qid, level

StatsSamples ==
    { ZeroStats,
      [total |-> 1, correct |-> 1, wrong |-> 0, blank |-> 0, rate |-> 1000, score |-> 1],
      [total |-> 3, correct |-> 1, wrong |-> 1, blank |-> 1, rate |-> 333, score |-> 1] }

FilesInit ==
    /\ progress = <<>>
    /\ ranking = <<>>
    /\ SessionDefaults
    /\ dfp = <<>>
    /\ lastOp = Op("init")
    /\ pin = <<>>
    /\ pout = <<>>

\* append_progress(user, qid, status, level); lastOp keeps what recompute_from_progress
\* returned for each user just before the call
LedgerAppend(user, q, status) ==
    /\ Len(progress) < MaxLedger
    /\ progress' = append_progress(progress, user, q[1], status, q[2])
    /\ lastOp' = [op |-> "append", drew |-> FALSE, user |-> user,
                  before |-> [u \in Users |-> recompute_from_progress(progress, u, df)]]
    /\ UNCHANGED <<ranking, sessionVars, pin, pout, dfp>>

\* the admin panel's delete, on both files
FilesDelete(target) ==
    /\ ranking' = DeleteUser(ranking, target)
    /\ progress' = DeleteUser(progress, target)
    /\ lastOp' = Op("delete")
    /\ UNCHANGED <<sessionVars, pin, pout, dfp>>

LedgerNext ==
    \/ \E user \in Users, q \in LedgerQuestions, status \in Statuses :
          LedgerAppend(user, q, status)
    \/ \E target \in Targets : FilesDelete(target)

SpecLedger == FilesInit /\ [][LedgerNext]_vars

\* replace_ranking(user, stats)
RankingSave(user, stats) ==
    /\ Len(ranking) < MaxRows
    /\ ranking' = replace_ranking(ranking, user, stats)
    /\ lastOp' = [op |-> "save", drew |-> FALSE, user |-> user, stats |-> stats]
    /\ UNCHANGED <<progress, sessionVars, pin, pout, dfp>>

RankingNext ==
    \/ \E user \in Users, stats \in StatsSamples : RankingSave(user, stats)
    \/ \E target \in Targets : FilesDelete(target)

SpecRanking == FilesInit /\ [][RankingNext]_vars

\* C3 (as claimed): after a save the ranking file has exactly one row for the saved user,
\* with the values of that save, and the file never has two rows with one user_name.
C3_OneRowPerUser ==
    /\ lastOp.op = "save" =>
          /\ Cardinality({ i \in 1..Len(ranking) :
                             ranking[i].user_name = lastOp.user }) = 1
          /\ \E i \in 1..Len(ranking) : ranking[i] = RankingRow(lastOp.user, lastOp.stats)
    /\ \A i, j \in 1..Len(ranking) :
          ranking[i].user_name = ranking[j].user_name => i = j

\* C4 (as claimed): an append raises the appending user's recomputed total by exactly
\* one, leaves every other user's recomputed stats as they were, and the stats returned
\* satisfy correct + wrong + blank = total.
C4_AppendAddsOneToTotal ==
    lastOp.op = "append" =>
        LET now(u) == recompute_from_progress(progress, u, df)
        IN  /\ now(lastOp.user).total = lastOp.before[lastOp.user].total + 1
            /\ \A u \in Users \ {lastOp.user} : now(u) = lastOp.before[u]
            /\ \A u \in Users : now(u).correct + now(u).wrong + now(u).blank = now(u).total

\* the rows of the progress file written for a user, by status
RowsOf(user, status) ==
    { i \in 1..Len(progress) :
        progress[i].user_name = user /\ progress[i].status = status }

\* C6 (as claimed): recompute(user) is derived from that user's rows alone: total is
\* their number, correct, wrong and blank the numbers of rows of that status, score the
\* sum of the level weights 1, 3, 5, 7 over the correct rows, rate the percentage
\* correct/total to one decimal; all zero when the user has no row.
C6_RecomputeFromOwnRecords ==
    \A u \in Users :
        LET got == recompute_from_progress(progress, u, df)
            n(status) == Cardinality(RowsOf(u, status))
            total == n("correct") + n("wrong") + n("blank")
            weight(level) == Cardinality({ i \in RowsOf(u, "correct") :
                                             progress[i].level = level })
        IN  /\ got.total = Cardinality({ i \in 1..Len(progress) :
                                           progress[i].user_name = u })
            /\ got.correct = n("correct")
            /\ got.wrong = n("wrong")
            /\ got.blank = n("blank")
            /\ got.score = weight("ha") + 3 * weight("jung") + 5 * weight("sang")
                           + 7 * weight("choesang")
            /\ got.rate = IF total = 0 THEN 0
                          ELSE (2000 * n("correct") + total) \div (2 * total)

(***************************************************************************)
(* The pure functions, each applied to inputs drawn from bounded sets      *)
(* (specifications SpecGrade, SpecFilter and SpecLoad).                    *)
(***************************************************************************)
Alphabet == {" ", "\t", "$", "*", "A", "a", "5"}

\* every text of at most n characters of the alphabet
Texts(n) == UNION { [1..k -> Alphabet] : k \in 0..n }

GroundTruths == { <<>>, <<"5">>, <<"$", "A", "$">>, <<"*", "*">>, <<"a", " ", "*">> }

PureInit(inputs) ==
    /\ progress = <<>>
    /\ ranking = <<>>
    /\ SessionDefaults
    /\ dfp = <<>>
    /\ lastOp = Op("init")
    /\ pin \in inputs
    /\ pout = <<>>

\* the grading at the head of commit_current_answer_and_mark_next
ApplyStatus ==
    /\ pout = <<>>
    /\ pout' = <<Status(pin.raw, pin.answer)>>
    /\ UNCHANGED <<progress, ranking, sessionVars, lastOp, pin, dfp>>

SpecGrade ==
    /\ PureInit([raw : Texts(MaxLen) \cup {None}, answer : GroundTruths])
    /\ [][ApplyStatus]_vars

\* C5: the status is blank if the normalised input is empty, correct if it equals the
\* normalised ground truth, wrong otherwise - also when the ground truth normalises to
\* the empty text.
C5_StatusDerivation ==
    pout # <<>> =>
        pout[1] = IF normalize_ans(pin.raw) = <<>> THEN "blank"
                  ELSE IF normalize_ans(pin.raw) = normalize_ans(pin.answer) THEN "correct"
                  ELSE "wrong"

\* an empty input graded against a ground truth that normalises to the empty text
C5_Witness ==
    /\ pout = <<"blank">>
    /\ pin.answer = <<"*", "*">>
    /\ pin.raw = <<" ", "$">>

FilterLevels == {"ha", "jung", "sang", "choesang", "", "gita"}   \* level cells of a sheet
LevelArgs == {LEVELS[i] : i \in 1..Len(LEVELS)} \cup {"", "gita"}
FilterKeywords == {<<>>, <<"S">>, <<"s", " ", "A">>}

FilterQuestions ==
    [id : {"q1"}, level : FilterLevels, topic : {<<"s">>, <<"x">>},
     question : {<<"a">>}, answer : {<<"5">>}]

\* filter_df on a sheet of the one question pin.q
ApplyFilter ==
    /\ pout = <<>>
    /\ pout' = <<filter_df(<<pin.q>>, pin.level, pin.keyword)>>
    /\ UNCHANGED <<progress, ranking, sessionVars, lastOp, pin, dfp>>

SpecFilter ==
    /\ PureInit([q : FilterQuestions, level : LevelArgs, keyword : FilterKeywords])
    /\ [][ApplyFilter]_vars

FourLevels == {"ha", "jung", "sang", "choesang"}

\* C7 (as claimed): filter({q}, q.level, "") contains q, and filter({q}, other, "") is
\* empty for every other level argument that is neither q.level nor "jeonche".
C7_OnlyAllPassesThrough ==
    (pout # <<>> /\ pin.keyword = <<>>) =>
        /\ pin.level = pin.q.level => pout[1] = {1}
        /\ (pin.level # pin.q.level /\ pin.level # "jeonche") => pout[1] = {}

\* C7 (amended): filter({q}, q.level, "") contains q; filter({q}, other, "") is empty
\* for every other among the four levels with other # q.level, and contains q for every
\* level argument outside the four levels, "jeonche" or not.
C7_FourLevelsFilter ==
    (pout # <<>> /\ pin.keyword = <<>>) =>
        /\ pin.level = pin.q.level => pout[1] = {1}
        /\ (pin.level \in FourLevels /\ pin.level # pin.q.level) => pout[1] = {}
        /\ pin.level \notin FourLevels => pout[1] = {1}

\* a question of one level filtered out by another of the four levels
C7_Witness ==
    /\ pout = <<{}>>
    /\ pin.keyword = <<>>
    /\ pin.level = "sang" /\ pin.q.level = "ha"

RankNames == {"a", "b", "007"}

\* a ranking row with a given correct count
RankRow(name, correct) ==
    RankingRow(name, [ZeroStats EXCEPT !.total = correct, !.correct = correct,
                                       !.score = correct])

\* the ranking files of at most MaxRows rows, one row per name
RankFiles ==
    UNION { { [i \in 1..k |-> RankRow(names[i], counts[i])] :
                names \in { f \in [1..k -> RankNames] :
                              \A i, j \in 1..k : f[i] = f[j] => i = j },
                counts \in [1..k -> 0..MaxCorrect] } : k \in 0..MaxRows }

\* load_ranking_sorted on the file pin
ApplyLoad ==
    /\ pout = <<>>
    /\ pout' = <<load_ranking_sorted(pin)>>
    /\ UNCHANGED <<progress, ranking, sessionVars, lastOp, pin, dfp>>

SpecLoad == PureInit(RankFiles) /\ [][ApplyLoad]_vars

\* the rows come out as a rearrangement p of the rows read, in descending order of
\* correct, rows of equal correct in file order
SortedStable(out, rows) ==
    /\ Len(out) = Len(rows)
    /\ \E p \in [1..Len(rows) -> 1..Len(rows)] :
          /\ \A i, j \in 1..Len(rows) : p[i] = p[j] => i = j
          /\ \A i \in 1..Len(rows) : out[i].row = rows[p[i]]
          /\ \A i, j \in 1..Len(rows) :
                i < j => \/ rows[p[i]].correct > rows[p[j]].correct
                         \/ rows[p[i]].correct = rows[p[j]].correct /\ p[i] < p[j]

\* the dense rank of a row: one more than the number of larger correct counts present
DenseRank(out, i) ==
    1 + Cardinality({ out[j].row.correct : j \in { k \in 1..Len(out) :
                                                    out[k].row.correct > out[i].row.correct } })

\* C8 (as claimed): all rows, sorted descending by correct, ties in file order, with
\* 1-based dense ranks.
C8_SortedWithDenseRanks ==
    pout # <<>> =>
        /\ SortedStable(pout[1], read_csv(pin))
        /\ \A i \in 1..Len(pout[1]) : pout[1][i].rank = DenseRank(pout[1], i)

\* C8 (amended): all rows, sorted descending by correct, ties in file order, the i-th
\* row of the result carrying rank i (so tied rows get different, consecutive ranks).
C8_SortedWithPositionRanks ==
    pout # <<>> =>
        /\ SortedStable(pout[1], read_csv(pin))
        /\ \A i \in 1..Len(pout[1]) : pout[1][i].rank = i

\* the file (a, correct=3), (b, correct=5) loaded as [b, a] with ranks [1, 2]
C8_Witness ==
    /\ pin = <<RankRow("a", 3), RankRow("b", 5)>>
    /\ pout = << << [row |-> RankRow("b", 5), rank |-> 1],
                    [row |-> RankRow("a", 3), rank |-> 2] >> >>

(***************************************************************************)
(* The admin delete against appends of other sessions (specification       *)
(* SpecPurge).  The sessions share the progress file and nothing else; the *)
(* delete reads the file (app.py:646) and writes the filtered frame back   *)
(* (app.py:649) in two steps, and another session's append_progress may    *)
(* run between them.                                                       *)
(***************************************************************************)
\* the delete button up to pd.read_csv(PROGRESS_FILE): the ranking file is rewritten,
\* the progress file is read and filtered
DeleteRead(target) ==
    /\ dfp = <<>>
    /\ ranking' = DeleteUser(ranking, target)
    /\ dfp' = <<[target |-> target, rows |-> DeleteUser(progress, target)]>>
    /\ lastOp' = Op("delete_read")
    /\ UNCHANGED <<progress, sessionVars, pin, pout>>

\* dfp.to_csv(PROGRESS_FILE): the file is replaced by the frame
DeleteWrite ==
    /\ dfp # <<>>
    /\ progress' = dfp[1].rows
    /\ dfp' = <<>>
    /\ lastOp' = [op |-> "delete_write", drew |-> FALSE, target |-> dfp[1].target]
    /\ UNCHANGED <<ranking, sessionVars, pin, pout>>

PurgeNext ==
    \/ \E user \in Users, q \in LedgerQuestions, status \in Statuses :
          LedgerAppend(user, q, status)
    \/ \E target \in Targets : DeleteRead(target)
    \/ DeleteWrite

SpecPurge == FilesInit /\ [][PurgeNext]_vars

\* s is an initial part of t
IsPrefix(s, t) == Len(s) <= Len(t) /\ SubSeq(t, 1, Len(s)) = s

\* C14 (as claimed): the write of a purge of X leaves the ledger as it was without X's
\* rows, every other row present and unchanged, and no other step removes or alters a
\* row of the ledger - whatever appends other sessions make between the purge's read and
\* its write.
C14_PurgeRemovesOnlyTarget ==
    [][ IF lastOp'.op = "delete_write"
        THEN progress' = SelectSeq(progress, LAMBDA r : r.user_name # lastOp'.target)
        ELSE IsPrefix(progress, progress') ]_vars

(***************************************************************************)
(* The stage machine and the question shown, with the admin panel          *)
(* (specification SpecAdmin).                                              *)
(***************************************************************************)
\* C11 (as claimed): in the quiz stage current_row_idx is a row of the loaded sheet,
\* and that row is the drawn question: within the current filters and not in seen_ids,
\* also after a sheet reload.
C11_ShownRowIsDrawnQuestion ==
    stage = "quiz" =>
        /\ current_row_idx \in 1..Len(df)
        /\ current_row_idx \in unseen(df, filters.level, filters.keyword, seen_ids)

StageEdges ==
    { <<"home", "quiz">>, <<"quiz", "quiz">>, <<"quiz", "result">>,
      <<"quiz", "home">>, <<"result", "home">> }

\* C12: the stage starts at home and changes only along home -> quiz, quiz -> quiz,
\* quiz -> result, quiz -> home and result -> home; a step of the admin panel leaves
\* the stage as it is.
C12_StageTransitions ==
    /\ stage = "home"
    /\ [][ /\ stage' # stage => <<stage, stage'>> \in StageEdges
           /\ stage = "result" /\ stage' # stage => stage' = "home"
           /\ lastOp'.op = "admin" => stage' = stage ]_vars

\* an admin step (here one that left the re-sorted sheet loaded) taken in the middle of
\* a quiz or on the result page
C12_Witness ==
    /\ lastOp.op = "admin"
    /\ stage \in {"quiz", "result"}
    /\ df = resorted_sheet
    /\ admin_ok

\* the distinct ids of the filtered set
FilteredIds == { df[i].id : i \in filter_df(df, filters.level, filters.keyword) }

\* C13 (as claimed): a next-question step ends in result when no unseen question is
\* left under the filters, and otherwise stays in quiz with a question of the unseen
\* pool; a sitting has at most as many quiz -> quiz steps as the filtered set has
\* distinct ids (in the quiz stage, sitting holds one entry per such step).
C13_NextRoutesAndTerminates ==
    /\ [][ lastOp'.op = "next" =>
             IF unseen(df', filters'.level, filters'.keyword, seen_ids') = {}
             THEN stage' = "result"
             ELSE /\ stage' = "quiz"
                  /\ current_row_idx' \in
                        unseen(df', filters'.level, filters'.keyword, seen_ids') ]_vars
    /\ [](stage = "quiz" => Len(sitting) <= Cardinality(FilteredIds))

====
